---- MODULE Spec2Model ----
(***************************************************************************)
(* Model of the patient record manager of src/app.py: the session's        *)
(* insertion-ordered dictionary patients_db, the PatientDatabase methods,  *)
(* the two form handlers (registration, lookup with its nested update)     *)
(* and the helpers validate_phone and generate_hospital_id.                *)
(*                                                                         *)
(* Python strings that the code transforms (phone, name, address, search   *)
(* value, hospital id) are sequences of one-character strings, so that     *)
(* replace, strip, upper, slicing and the regular expression are computed  *)
(* and not assumed.  A dictionary is a sequence of entries [k, v] in       *)
(* insertion order.  The value handed out by a lookup is a reference to    *)
(* the dictionary held in a slot, so it is modelled by the slot's index.   *)
(***************************************************************************)
EXTENDS Integers, Sequences, FiniteSets, TLC

VARIABLES
    patients_db,   \* st.session_state.patients_db
    generated,     \* the hospital ids generate_hospital_id has returned so far
    collided,      \* TRUE once generate_hospital_id has repeated an id
    last           \* what the last handler run did and showed

vars == <<patients_db, generated, collided, last>>

-----------------------------------------------------------------------------
(* Program constants *)

PhoneDigits == 10
IdLen == 8
AgeMinValue == 0
AgeMaxValue == 150

(* Bound of the model: how many different uuid4 values the model draws from *)
MaxUuids == 2

-----------------------------------------------------------------------------
(* Strings *)

Digits == {"0", "1", "2", "3", "4", "5", "6", "7", "8", "9"}

\* str.replace(ch, ''): every occurrence of ch removed
replace(s, ch) == SelectSeq(s, LAMBDA c : c /= ch)

\* a normalization that forgets the spaces
clean_hyphens_only(phone) == replace(phone, "-")

\* phone.replace('-', '').replace(' ', '')
clean(phone) == replace(replace(phone, "-"), " ")

RECURSIVE lstrip(_)
lstrip(s) == IF s /= <<>> /\ Head(s) = " " THEN lstrip(Tail(s)) ELSE s

RECURSIVE rstrip(_)
rstrip(s) ==
    IF s /= <<>> /\ s[Len(s)] = " " THEN rstrip(SubSeq(s, 1, Len(s) - 1)) ELSE s

\* str.strip()
strip(s) == rstrip(lstrip(s))

upper_char(c) ==
    CASE c = "a" -> "A" [] c = "b" -> "B" [] c = "c" -> "C" [] c = "d" -> "D"
      [] c = "e" -> "E" [] c = "f" -> "F" [] c = "h" -> "H" [] c = "s" -> "S"
      [] c = "p" -> "P" [] OTHER -> c

\* str.upper()
upper(s) == [i \in 1..Len(s) |-> upper_char(s[i])]

\* a validation that counts the characters and forgets that they are digits
validate_phone_length(phone) == Len(clean(phone)) = PhoneDigits

\* bool(re.match(r'^\d{10}$', phone.replace('-', '').replace(' ', '')))
validate_phone(phone) ==
    LET p == clean(phone)
    IN  Len(p) = PhoneDigits /\ \A i \in 1..Len(p) : p[i] \in Digits

\* st.number_input(min_value=0, max_value=150): the widget hands the handler
\* a value only when it lies in the declared range
number_input(value) == value >= AgeMinValue /\ value <= AgeMaxValue

-----------------------------------------------------------------------------
(* uuid4 and the hospital id *)

HexLower == <<"a", "b", "c", "d", "e", "f">>

\* str(uuid.uuid4()): the i-th value of the pool the model draws from
Uuid(i) == <<HexLower[i], "0", "c", "1", "d", "2", "e", "3", "-", "9", "f">>

UuidPool == {Uuid(i) : i \in 1..MaxUuids}

\* f"HSP-{str(uuid.uuid4())[:8].upper()}"
generate_hospital_id(u) == <<"H", "S", "P", "-">> \o upper(SubSeq(u, 1, IdLen))

-----------------------------------------------------------------------------
(* Records and the dictionary *)

None == [none |-> TRUE]

\* Patient(...).to_dict()
Patient(hospital_id, name, age, gender, phone, address) ==
    [hospital_id |-> hospital_id, name |-> name, age |-> age,
     gender |-> gender, phone |-> phone, address |-> address]

\* the slot holding key k, or 0
slot_of(db, k) ==
    IF \E i \in 1..Len(db) : db[i].k = k
    THEN CHOOSE i \in 1..Len(db) : db[i].k = k
    ELSE 0

\* k in d
dict_has(db, k) == slot_of(db, k) /= 0

\* d[k] = v: an existing key keeps its place, a new key goes last
dict_set(db, k, v) ==
    IF dict_has(db, k)
    THEN [db EXCEPT ![slot_of(db, k)] = [k |-> k, v |-> v]]
    ELSE Append(db, [k |-> k, v |-> v])

\* del d[k]
dict_del(db, k) == SelectSeq(db, LAMBDA e : e.k /= k)

\* a save that files the record under its hospital id
save_patient_by_id(db, patient) == dict_set(db, patient.hospital_id, patient)

\* PatientDatabase.save_patient
save_patient(db, patient) == dict_set(db, patient.phone, patient)

\* PatientDatabase.get_patient_by_phone, as the slot it returns a reference to
phone_slot(db, phone) == slot_of(db, phone)

get_patient_by_phone(db, phone) ==
    IF phone_slot(db, phone) = 0 THEN None ELSE db[phone_slot(db, phone)].v

\* PatientDatabase.get_patient_by_id: the first match of the scan
id_slot(db, hospital_id) ==
    IF \E i \in 1..Len(db) : db[i].v.hospital_id = hospital_id
    THEN CHOOSE i \in 1..Len(db) :
            /\ db[i].v.hospital_id = hospital_id
            /\ \A j \in 1..(i - 1) : db[j].v.hospital_id /= hospital_id
    ELSE 0

get_patient_by_id(db, hospital_id) ==
    IF id_slot(db, hospital_id) = 0 THEN None
    ELSE db[id_slot(db, hospital_id)].v

\* dict.update(updated_data): the five edited fields replaced in place
merge(rec, updated_data) ==
    [rec EXCEPT !.name = updated_data.name, !.age = updated_data.age,
                !.gender = updated_data.gender, !.phone = updated_data.phone,
                !.address = updated_data.address]

\* PatientDatabase.update_patient: the dictionary afterwards
update_patient(db, phone, updated_data) ==
    IF dict_has(db, phone)
    THEN [db EXCEPT ![slot_of(db, phone)].v = merge(@, updated_data)]
    ELSE db

\* PatientDatabase.get_total_patients
get_total_patients(db) == Len(db)

-----------------------------------------------------------------------------
(* What a handler run shows *)

NameRequired == "Name is required"
AgeRequired == "Valid age is required"
GenderRequired == "Gender selection is required"
PhoneRequired == "Phone number is required"
InvalidPhone == "Please enter a valid 10-digit phone number"
AddressRequired == "Address is required"

\* the record of one handler run: the handler, the text typed into its phone
\* or search field, the age submitted (0 when no form with an age was), its
\* outcome, the messages of st.error in order, the
\* store methods it called in order, the patient record it found or created
\* (as found, before any update) and the updated_data dictionary it built
Shown(op, typed, age, outcome, errors, calls, patient, updated) ==
    [op |-> op, typed |-> typed, age |-> age, outcome |-> outcome,
     errors |-> errors,
     calls |-> calls, patient |-> patient, updated |-> updated]

when(cond, msg) == IF cond THEN <<msg>> ELSE <<>>

\* the phone branch shared by both validations: required, else format
phone_errors(phone) ==
    IF strip(phone) = <<>> THEN <<PhoneRequired>>
    ELSE when(~validate_phone(phone), InvalidPhone)

\* a validation that lets the age 0 through
registration_errors_negative(name, age, gender, phone, address) ==
    when(strip(name) = <<>>, NameRequired)
        \o when(age < 0, AgeRequired)
        \o when(gender = "", GenderRequired)
        \o phone_errors(phone)
        \o when(strip(address) = <<>>, AddressRequired)

\* render_patient_registration: the validation of a submitted form
registration_errors(name, age, gender, phone, address) ==
    when(strip(name) = <<>>, NameRequired)
        \o when(age <= 0, AgeRequired)
        \o when(gender = "", GenderRequired)
        \o phone_errors(phone)
        \o when(strip(address) = <<>>, AddressRequired)

\* render_patient_lookup: the validation of a submitted update form
update_errors(name, age, phone, address) ==
    when(strip(name) = <<>>, NameRequired)
        \o when(age <= 0, AgeRequired)
        \o phone_errors(phone)
        \o when(strip(address) = <<>>, AddressRequired)

-----------------------------------------------------------------------------
(* The handlers *)

\* render_patient_registration with the form submitted
render_patient_registration(name, age, gender, phone, address) ==
    LET errors == registration_errors(name, age, gender, phone, address)
        clean_phone == clean(phone)
    IN  IF ~number_input(age)
        THEN /\ last' = Shown("register", phone, age, "OutOfRange", <<>>,
                              <<>>, None, None)
             /\ UNCHANGED <<patients_db, generated, collided>>
        ELSE IF errors /= <<>>
        THEN /\ last' = Shown("register", phone, age, "ValidationErrors",
                              errors, <<>>,
                              None, None)
             /\ UNCHANGED <<patients_db, generated, collided>>
        ELSE IF get_patient_by_phone(patients_db, clean_phone) /= None
        THEN /\ last' = Shown("register", phone, age, "DuplicateKey", <<>>,
                              <<"PatientDatabase", "get_patient_by_phone">>,
                              None, None)
             /\ UNCHANGED <<patients_db, generated, collided>>
        ELSE \E u \in UuidPool :
                LET hospital_id == generate_hospital_id(u)
                    patient == Patient(hospital_id, strip(name), age, gender,
                                       clean_phone, strip(address))
                IN  /\ patients_db' = save_patient(patients_db, patient)
                    /\ generated' = generated \cup {hospital_id}
                    /\ collided' = (collided \/ hospital_id \in generated)
                    /\ last' = Shown("register", phone, age, "Registered", <<>>,
                                     <<"PatientDatabase", "get_patient_by_phone",
                                       "save_patient">>,
                                     patient, None)

\* the slot of the dictionary that the search of render_patient_lookup
\* returns a reference to (0: None)
search_slot(db, search_type, search_value) ==
    IF search_type = "Phone Number"
    THEN phone_slot(db, clean(search_value))
    ELSE id_slot(db, upper(search_value))

search_call(search_type) ==
    IF search_type = "Phone Number" THEN "get_patient_by_phone"
    ELSE "get_patient_by_id"

\* the update form's submission, for the patient_data found in slot i
submit_update(i, typed, calls, name, age, gender, phone, address) ==
    LET patient_data == patients_db[i].v
        errors == update_errors(name, age, phone, address)
        updated_data == [name |-> strip(name), age |-> age, gender |-> gender,
                         phone |-> clean(phone), address |-> strip(address)]
        \* db.update_patient(patient_data['phone'], updated_data)
        found == dict_has(patients_db, patient_data.phone)
        db1 == update_patient(patients_db, patient_data.phone, updated_data)
        \* patient_data is the dictionary in slot i: it shows what
        \* update_patient wrote when that was the slot it wrote to
        patient_data1 == db1[i].v
        \* updated_data['hospital_id'] = patient_data['hospital_id']
        rekeyed == updated_data @@ [hospital_id |-> patient_data1.hospital_id]
    IN  IF ~number_input(age)
        THEN /\ last' = Shown("update", typed, age, "OutOfRange", <<>>, calls,
                              patient_data, None)
             /\ UNCHANGED <<patients_db, generated, collided>>
        ELSE IF errors /= <<>>
        THEN /\ last' = Shown("update", typed, age, "ValidationErrors",
                              errors, calls,
                              patient_data, None)
             /\ UNCHANGED <<patients_db, generated, collided>>
        ELSE IF ~found
        THEN /\ last' = Shown("update", typed, age, "UpdateFailed", <<>>,
                              Append(calls, "update_patient"),
                              patient_data, updated_data)
             /\ UNCHANGED <<patients_db, generated, collided>>
        ELSE /\ patients_db' =
                    IF updated_data.phone /= patient_data1.phone
                    THEN dict_set(dict_del(db1, patient_data1.phone),
                                  updated_data.phone, rekeyed)
                    ELSE db1
             /\ last' = Shown("update", typed, age, "Updated", <<>>,
                              Append(calls, "update_patient"),
                              patient_data, updated_data)
             /\ UNCHANGED <<generated, collided>>

\* render_patient_lookup with the search form submitted: the search alone
\* (update_submitted = FALSE) or the search and the update form's submission
render_patient_lookup(search_type, search_value, update_submitted, name, age, gender, phone, address) ==
    LET i == search_slot(patients_db, search_type, search_value)
        calls == <<"PatientDatabase", search_call(search_type)>>
    IN  IF search_value = <<>>
        THEN /\ last' = Shown("lookup", search_value, 0, "NoSearch", <<>>,
                              <<>>, None, None)
             /\ UNCHANGED <<patients_db, generated, collided>>
        ELSE IF search_type = "Phone Number"
                /\ ~validate_phone(clean(search_value))
        THEN /\ last' = Shown("lookup", search_value, 0, "InvalidPhone",
                              <<InvalidPhone>>,
                              <<"PatientDatabase">>, None, None)
             /\ UNCHANGED <<patients_db, generated, collided>>
        ELSE IF i = 0
        THEN /\ last' = Shown("lookup", search_value, 0, "NotFound", <<>>,
                              calls, None, None)
             /\ UNCHANGED <<patients_db, generated, collided>>
        ELSE IF ~update_submitted
        THEN /\ last' = Shown("lookup", search_value, 0, "Found", <<>>, calls,
                              patients_db[i].v, None)
             /\ UNCHANGED <<patients_db, generated, collided>>
        ELSE submit_update(i, search_value, calls,
                           name, age, gender, phone, address)

-----------------------------------------------------------------------------
(* The inputs the model tries *)

P1 == <<"5", "5", "5", "1", "2", "3", "4", "5", "6", "7">>
P1Hyphens == <<"5", "5", "5", "-", "1", "2", "3", "-", "4", "5", "6", "7">>
P1Spaces == <<"5", "5", "5", " ", "1", "2", "3", " ", "4", "5", "6", "7">>
P1Odd == <<"5", "5", "5", "-", "1", "2", "-", "3", "4", "5", "6", "7">>
P2 == <<"5", "5", "5", "9", "9", "9", "8", "8", "8", "8">>
P3Hyphens == <<"5", "5", "5", "-", "0", "0", "0", "-", "1", "1", "1", "1">>
Short == <<"1", "2", "3", "4", "5">>
Letters == <<"a", "b", "c", "d", "e", "f", "g", "h", "i", "j">>

Jane == <<"J", "a", "n", "e", " ">>
MainSt == <<" ", "1", " ", "M", "a", "i", "n">>

\* the hospital ids a user may search for, as the application showed them
ShownIds == {generate_hospital_id(u) : u \in UuidPool}

\* and typed in lower case
TypedIds == {<<"h", "s", "p", "-">> \o SubSeq(u, 1, IdLen) : u \in UuidPool}

\* the store under re-keying: three keys, one value of every other field
KeyInputs ==
    [names |-> {Jane}, ages |-> {34}, genders |-> {"Female"},
     phones |-> {P1, P2, P3Hyphens}, addresses |-> {MainSt},
     ids |-> ShownIds, edits |-> {P1, P2, P3Hyphens}]

\* registration and lookup over two keys
PairInputs ==
    [names |-> {Jane}, ages |-> {34}, genders |-> {"Female"},
     phones |-> {P1Hyphens, P2}, addresses |-> {MainSt},
     ids |-> ShownIds, edits |-> {P1Hyphens, P2}]

\* the forms' validation: every format of the phone, the age boundaries,
\* blank fields
FormInputs ==
    [names |-> {<<" ">>, Jane}, ages |-> {0, 1, 150, 151},
     genders |-> {"", "Female"},
     phones |-> {P1, P1Hyphens, P1Spaces, P1Odd, Short, Letters, <<>>},
     addresses |-> {<<>>, MainSt},
     ids |-> ShownIds \cup TypedIds, edits |-> {P1Spaces, Short, <<>>}]


-----------------------------------------------------------------------------
(* The state machine *)

Init ==
    /\ patients_db = <<>>
    /\ generated = {}
    /\ collided = FALSE
    /\ last = Shown("init", <<>>, 0, "None", <<>>, <<>>, None, None)

Register(In) ==
    \E name \in In.names, age \in In.ages, gender \in In.genders,
       phone \in In.phones, address \in In.addresses :
        render_patient_registration(name, age, gender, phone, address)

Searches(In) ==
    ({"Phone Number"} \X In.phones) \cup ({"Hospital ID"} \X In.ids)

Lookup(In) ==
    \E s \in Searches(In) :
        render_patient_lookup(s[1], s[2], FALSE, <<>>, 0, "", <<>>, <<>>)

\* the update form opens with the found patient's values; the user may
\* leave the phone as it is or edit any field
Update(In) ==
    \E s \in Searches(In) :
        LET i == search_slot(patients_db, s[1], s[2])
        IN  /\ i /= 0
            /\ \E name \in In.names, age \in In.ages,
                  gender \in In.genders \ {""},
                  phone \in In.edits \cup {patients_db[i].v.phone},
                  address \in In.addresses :
                    render_patient_lookup(s[1], s[2], TRUE,
                                          name, age, gender, phone, address)

RegisterKeys == Register(KeyInputs)
LookupKeys == Lookup(KeyInputs)
UpdateKeys == Update(KeyInputs)

Next == RegisterKeys \/ LookupKeys \/ UpdateKeys

Spec == Init /\ [][Next]_vars

RegisterForm == Register(FormInputs)
LookupForm == Lookup(FormInputs)
UpdateForm == Update(FormInputs)

NextForm == RegisterForm \/ LookupForm \/ UpdateForm

SpecForm == Init /\ [][NextForm]_vars

RegisterPair == Register(PairInputs)
LookupPair == Lookup(PairInputs)
UpdatePair == Update(PairInputs)

NextPair == RegisterPair \/ LookupPair \/ UpdatePair

SpecPair == Init /\ [][NextPair]_vars

-----------------------------------------------------------------------------
(* Definitions the properties share *)

Range(f) == {f[i] : i \in DOMAIN f}

Records(db) == {db[i].v : i \in 1..Len(db)}

\* the last run was a submission the form delivered and the validation passed
Accepted(shown) == shown.outcome \notin {"OutOfRange", "ValidationErrors"}

\* the methods that read or write records of the store
RecordMethods ==
    {"get_patient_by_phone", "get_patient_by_id", "save_patient",
     "update_patient"}

\* p and q differ only in spaces and hyphens
SameButSeparators(p, q) ==
    SelectSeq(p, LAMBDA c : c \notin {" ", "-"})
        = SelectSeq(q, LAMBDA c : c \notin {" ", "-"})

\* the last run updated a record and changed its phone
PhoneChanged ==
    /\ last.op = "update"
    /\ last.outcome = "Updated"
    /\ last.updated.phone /= last.patient.phone

-----------------------------------------------------------------------------
(* C1: after a successful update that changes a record's phone, lookup by  *)
(* the old phone returns NotFound and lookup by the new phone returns the  *)
(* record with the hospitalId it had before the update.                    *)
ReKeyedAfterUpdate ==
    PhoneChanged =>
        /\ get_patient_by_phone(patients_db, last.patient.phone) = None
        /\ get_patient_by_phone(patients_db, last.updated.phone) /= None
        /\ get_patient_by_phone(patients_db, last.updated.phone).hospital_id
               = last.patient.hospital_id

(* C2: in every reachable state no two records of the store have the same  *)
(* phone field.                                                            *)
PhoneUnique ==
    \A i, j \in 1..Len(patients_db) :
        i /= j => patients_db[i].v.phone /= patients_db[j].v.phone

DuplicatePhoneRejected ==
    [][(/\ last'.op = "register"
        /\ Accepted(last')
        /\ \E r \in Records(patients_db) : r.phone = clean(last'.typed))
       => /\ last'.outcome = "DuplicateKey"
          /\ patients_db' = patients_db]_vars

\* a registration or a lookup by phone whose input is one of the phones
RunWithPhone(shown, phones) ==
    /\ shown.typed \in phones
    /\ \/ shown.op = "register" /\ shown.outcome /= "OutOfRange"
       \/ shown.op = "lookup" /\ "get_patient_by_id" \notin Range(shown.calls)

\* the run showed the phone format error and called no record method
RejectedInvalidPhone(shown) ==
    /\ InvalidPhone \in Range(shown.errors)
    /\ shown.outcome \in {"ValidationErrors", "InvalidPhone"}
    /\ Range(shown.calls) \cap RecordMethods = {}

(* C5 as amended: "12345" and "abcdefghij" are rejected with InvalidPhone  *)
(* at registration and at lookup by phone, with no record of the store     *)
(* read or written; "555-12-34567" holds ten digits once its hyphens are   *)
(* removed and is not rejected as an invalid phone.                        *)
InvalidPhonesRejected ==
    [][/\ RunWithPhone(last', {Short, Letters})
          => RejectedInvalidPhone(last') /\ patients_db' = patients_db
       /\ RunWithPhone(last', {P1Odd})
          => InvalidPhone \notin Range(last'.errors)]_vars

\* C5 as stated: all three inputs are rejected
ThreePhonesRejected ==
    [][RunWithPhone(last', {Short, Letters, P1Odd})
          => RejectedInvalidPhone(last') /\ patients_db' = patients_db]_vars

\* with a record in the store, a registration was rejected for the format of
\* "12345" alone
ShortPhoneRejected ==
    /\ patients_db /= <<>>
    /\ last.op = "register"
    /\ last.typed = Short
    /\ last.errors = <<InvalidPhone>>

HospitalIdUnique ==
    ~collided =>
        /\ \A i, j \in 1..Len(patients_db) :
              i /= j =>
                  patients_db[i].v.hospital_id /= patients_db[j].v.hospital_id
        /\ \A r \in Records(patients_db) : r.hospital_id \in generated

(* C8: a registered record is never deleted: the record count never        *)
(* decreases and lookup by a registered hospitalId keeps returning a       *)
(* record.                                                                 *)
NeverDeleted ==
    [][~collided' =>
          /\ get_total_patients(patients_db')
                 >= get_total_patients(patients_db)
          /\ \A id \in generated :
                 get_patient_by_id(patients_db, id) /= None
                     => get_patient_by_id(patients_db', id) /= None]_vars

(* C9: removing spaces and hyphens is idempotent, and a record registered  *)
(* under one formatting of a phone is found by phone lookup under every    *)
(* formatting that differs only in spaces and hyphens.                     *)
NormalizedLookup ==
    /\ clean(clean(last.typed)) = clean(last.typed)
    /\ (last.op = "register" /\ last.outcome = "Registered") =>
          \A q \in FormInputs.phones :
              SameButSeparators(q, last.typed) =>
                  /\ clean(q) = last.patient.phone
                  /\ validate_phone(clean(q))
                  /\ get_patient_by_phone(patients_db, clean(q)) = last.patient
    /\ (last.op = "lookup" /\ "get_patient_by_phone" \in Range(last.calls)) =>
          \A i \in 1..Len(patients_db) :
              SameButSeparators(patients_db[i].k, last.typed) =>
                  last.outcome = "Found" /\ last.patient = patients_db[i].v

\* a lookup typed with spaces found the record stored under the bare digits
FoundUnderOtherFormatting ==
    /\ last.op = "lookup"
    /\ last.typed = P1Spaces
    /\ last.outcome = "Found"
    /\ last.patient.phone = P1

(* C10: every record is stored under the key equal to its own phone field. *)
KeyIsPhone ==
    \A i \in 1..Len(patients_db) : patients_db[i].v.phone = patients_db[i].k

====
